---- MODULE Spec2Model ----
(***************************************************************************)
(* Model of the two validation scripts of recommender-dashboard:           *)
(*   validate_customer_profiling.py  (script "profiling")                  *)
(*   validate_metrics.py             (script "metrics")                    *)
(* The database is the environment: its tables are model inputs, a query   *)
(* either returns the value SQL computes on them or raises.  Rational      *)
(* results (Python floats / SQL numerics) are exact fractions <<num, den>>.*)
(***************************************************************************)
EXTENDS Integers, Sequences, FiniteSets, TLC

VARIABLES
    script,         \* which script this run executes
    pc,             \* position of the run in main()
    orders,         \* orders table, 30-day window (profiling script)
    purchases,      \* orders JOIN order_items: (customer, product) -> joined rows
    tableCount,     \* COUNT(*) of each required table
    hvValue,        \* what the high-value-pairs query returns on this database
    crossValue,     \* what the cross-region query returns on this database
    nConn,          \* connections opened so far (ids 1..nConn)
    calls,          \* calls of get_db_connection so far
    open,           \* ids of the connections that are open
    aborted,        \* ids of the connections whose transaction is aborted
    broken,         \* ids of the connections the server side has dropped
    conn,           \* id of the connection the running function holds, 0 = none
    sqlFault,       \* queries that raised an SQL error of their own
    dropFault,      \* queries during which the server connection was lost
    raised,         \* queries whose execute() raised, for whatever reason
    queryConn,      \* executed query -> id of the connection it ran on
    invoked,        \* metric functions that were called
    returned,       \* metric functions that returned normally
    custRow,        \* fetchone() of the customer metrics query
    real_metrics,   \* return value of validate_customer_profiling
    geoRows,        \* fetchall() of the geographic query
    percentages,    \* percentage of each city row computed so far
    table_status,   \* return value of validate_database_structure
    collabRow,      \* fetchone() of the collaborative query
    pairRows,       \* rows of customer_pairs in that query
    metrics,        \* return value of validate_collaborative_metrics
    high_value_pairs,
    cross_region_products,
    error,          \* <<exception, where raised>> once one left its function
    handled,        \* TRUE once main's top-level except clause ran
    exitStatus      \* process exit status, -1 while running

vars == <<script, pc, orders, purchases, tableCount, hvValue, crossValue,
          nConn, calls, open, aborted, broken, conn, sqlFault, dropFault, raised,
          queryConn, invoked, returned, custRow, real_metrics, geoRows,
          percentages, table_status, collabRow, pairRows, metrics, high_value_pairs,
          cross_region_products, error, handled, exitStatus>>

-----------------------------------------------------------------------------
(* Bounds of the model. *)

MaxCustomer == 3        \* customer ids 1..MaxCustomer (0 is SQL NULL)
MaxProduct == 3         \* product ids 1..MaxProduct
MaxRunRows == 1         \* rows of customer_products in the whole-script runs
MaxPurchaseCount == 2   \* joined rows in one (customer, product) group
MaxOrders == 2          \* orders in the 30-day window
MaxCity == 2            \* city names 1..MaxCity (0 is NULL or '')
MaxPrice == 2           \* total_price of an order, 1..MaxPrice
MaxCount == 1           \* table row counts and business counts, 0..MaxCount
MaxUsers == 3           \* total_users of an arbitrary collaborative result
MaxPairs == 4           \* active_customer_pairs of an arbitrary result
MaxAvgNum == 12         \* numerator of avg_shared_products of such a result
MaxAvgDen == 2          \* denominator of avg_shared_products of such a result

(* Program constants. *)
TopCities == 10             \* LIMIT 10 of the geographic query
MinSharedProducts == 2      \* HAVING COUNT(DISTINCT cp1.product_id) >= 2
SimilarityDivisor == 10     \* avg_shared / 10.0

NULL == 0
Customers == 1..MaxCustomer
Products == 1..MaxProduct
Cities == 1..MaxCity

-----------------------------------------------------------------------------
(* Exact rationals. *)

Frac(n, d) == <<n, d>>
FracEq(a, b) == a[1] * b[2] = b[1] * a[2]
FracLeq(a, b) == a[1] * b[2] <= b[1] * a[2]
Zero == Frac(0, 1)
One == Frac(1, 1)

Min(a, b) == IF a <= b THEN a ELSE b

-----------------------------------------------------------------------------
(* The collaborative query, validate_metrics.py lines 69-115.              *)

(* customer_products: one row per (customer, product) group of the joined  *)
(* rows; P maps each group to the number of joined rows in it, which is    *)
(* the group's purchase_count.                                             *)
customer_products(P) ==
    { [unified_customer_id |-> g[1], product_id |-> g[2], purchase_count |-> P[g]]
        : g \in DOMAIN P }

(* ON ... AND cp1.unified_customer_id < cp2.unified_customer_id; a         *)
(* comparison with NULL is unknown and joins nothing.  PairJoinCondNeq is  *)
(* the faulty join on <> instead of <, which C8 must tell apart.           *)
PairJoinCondNeq(c1, c2) == c1 # NULL /\ c2 # NULL /\ c1 # c2
(* PairJoinCondNullAsValue is the faulty join that compares NULL like a    *)
(* customer id, which C11 must tell apart.                                 *)
PairJoinCondNullAsValue(c1, c2) == c1 < c2
PairJoinCond(c1, c2) == c1 # NULL /\ c2 # NULL /\ c1 < c2

(* customer_products cp1 JOIN customer_products cp2 ON same product. *)
PairJoin(cp) ==
    { j \in cp \X cp :
        /\ j[1].product_id = j[2].product_id
        /\ PairJoinCond(j[1].unified_customer_id, j[2].unified_customer_id) }

(* HAVING COUNT(DISTINCT cp1.product_id) >= 2.  HavingSharedAny is the    *)
(* faulty filter that keeps every joined pair, which C9 must tell apart.   *)
HavingSharedAny(n) == n >= 1
HavingShared(n) == n >= MinSharedProducts

(* customer_pairs: GROUP BY (customer1, customer2) of the join. *)
customer_pairs(cp) ==
    LET J == PairJoin(cp)
        keys == { <<j[1].unified_customer_id, j[2].unified_customer_id>> : j \in J }
        shared(k) == Cardinality({ j[1].product_id : j \in
                        { i \in J : /\ i[1].unified_customer_id = k[1]
                                    /\ i[2].unified_customer_id = k[2] } })
        groups == { [customer1 |-> k[1], customer2 |-> k[2],
                     shared_products |-> shared(k)] : k \in keys }
    IN  { g \in groups : HavingShared(g.shared_products) }

RECURSIVE SumPurchaseCount(_)
SumPurchaseCount(cp) ==
    IF cp = {} THEN 0
    ELSE LET r == CHOOSE x \in cp : TRUE
         IN  r.purchase_count + SumPurchaseCount(cp \ {r})

RECURSIVE SumShared(_)
SumShared(pairs) ==
    IF pairs = {} THEN 0
    ELSE LET r == CHOOSE x \in pairs : TRUE
         IN  r.shared_products + SumShared(pairs \ {r})

(* The one row the query returns.  COUNT(DISTINCT ...) skips NULL; SUM and *)
(* AVG over no rows are NULL, which "COALESCE(.., 0)" and "x or 0" turn    *)
(* into 0.                                                                 *)
CollabRow(cp, pairs) ==
    [ total_users |-> Cardinality({ r.unified_customer_id : r \in cp } \ {NULL}),
      total_products |-> Cardinality({ r.product_id : r \in cp }),
      total_purchases |-> SumPurchaseCount(cp),
      total_combinations |-> Cardinality(cp),
      active_pairs |-> Cardinality(pairs),
      avg_shared |-> IF pairs = {} THEN Zero
                     ELSE Frac(SumShared(pairs), Cardinality(pairs)) ]

CollabQuery(P) ==
    LET cp == customer_products(P) IN CollabRow(cp, customer_pairs(cp))

(* Derived metrics, validate_metrics.py lines 135-137.                     *)
(* SimilarityScoreUnclamped is the faulty score without min(.., 1.0),      *)
(* which C7 must tell apart.                                               *)
SimilarityScoreUnclamped(avg_shared) ==
    IF avg_shared[1] > 0
    THEN Frac(avg_shared[1], SimilarityDivisor * avg_shared[2])
    ELSE Zero
SimilarityScore(avg_shared) ==
    IF avg_shared[1] > 0
    THEN LET q == Frac(avg_shared[1], SimilarityDivisor * avg_shared[2])
         IN  IF FracLeq(q, One) THEN q ELSE One
    ELSE Zero

MaxPossiblePairs(total_users) ==
    IF total_users > 1 THEN (total_users * (total_users - 1)) \div 2 ELSE 1

RecommendationCoverage(active_pairs, total_users) ==
    LET m == MaxPossiblePairs(total_users)
    IN  IF m > 0
        THEN (IF FracLeq(Frac(active_pairs, m), One) THEN Frac(active_pairs, m) ELSE One)
        ELSE Zero

(* The dictionary validate_collaborative_metrics returns (lines 143-152). *)
CollabMetrics(row) ==
    [ total_users |-> row.total_users,
      total_products |-> row.total_products,
      total_purchases |-> row.total_purchases,
      total_recommendations |-> row.total_combinations,
      active_customer_pairs |-> row.active_pairs,
      avg_similarity_score |-> SimilarityScore(row.avg_shared),
      algorithm_accuracy |-> RecommendationCoverage(row.active_pairs, row.total_users),
      coverage |-> RecommendationCoverage(row.active_pairs, row.total_users) ]

-----------------------------------------------------------------------------
(* The queries of validate_customer_profiling.py.  An order is a record    *)
(* [customer, city, price]; its position in the table is its id.           *)

OrderRows == [customer : {NULL} \cup Customers, city : {NULL} \cup Cities,
              price : 1..MaxPrice]

RECURSIVE SumPrice(_)
SumPrice(O) == IF O = <<>> THEN 0 ELSE Head(O).price + SumPrice(Tail(O))

(* Lines 32-42: COUNT(DISTINCT id), COUNT(DISTINCT unified_customer_id),   *)
(* COALESCE(SUM(total_price), 0), COALESCE(AVG(total_price), 0).           *)
CustomerQuery(O) ==
    [ total_orders |-> Len(O),
      total_customers |-> Cardinality({ O[i].customer : i \in 1..Len(O) } \ {NULL}),
      total_revenue |-> SumPrice(O),
      avg_order_value |-> IF Len(O) = 0 THEN Zero ELSE Frac(SumPrice(O), Len(O)) ]

(* Line 52: the guarded division. *)
AvgLifetimeValue(row) ==
    IF row.total_customers > 0 THEN Frac(row.total_revenue, row.total_customers)
    ELSE Zero

(* Line 56: result[0] / result[1] raises ZeroDivisionError on 0 customers. *)
OrdersPerCustomerRaises(row) == row.total_customers = 0

(* Lines 62-67. *)
CustomerMetrics(row) ==
    [ total_customers |-> row.total_customers,
      total_revenue |-> row.total_revenue,
      avg_order_value |-> row.avg_order_value,
      avg_lifetime_value |-> AvgLifetimeValue(row) ]

(* One row of the geographic query per city that has an order with a       *)
(* non-NULL, non-empty city (lines 79-88).                                 *)
CityRow(O, c) ==
    LET idx == { i \in 1..Len(O) : O[i].city = c }
    IN  [ city |-> c,
          customer_count |-> Cardinality({ O[i].customer : i \in idx } \ {NULL}),
          orders |-> Cardinality(idx),
          revenue |-> SumPrice(SelectSeq(O, LAMBDA o : o.city = c)) ]

(* ORDER BY customer_count DESC names no tie-break: every order of the     *)
(* rows R with non-increasing customer_count is one the database may       *)
(* return, rows of equal count in any order.                               *)
SortCities(R) ==
    { s \in [1..Cardinality(R) -> R] :
        /\ \A i, j \in 1..Cardinality(R) : i # j => s[i] # s[j]
        /\ \A i \in 1..(Cardinality(R) - 1) :
                s[i].customer_count >= s[i + 1].customer_count }

(* Lines 78-93, with LIMIT 10: the results fetchall() may return. *)
GeoQuery(O) ==
    { SubSeq(sorted, 1, Min(Len(sorted), TopCities)) :
        sorted \in SortCities({ CityRow(O, c) :
                      c \in { O[i].city : i \in 1..Len(O) } \ {NULL} }) }

RECURSIVE SumCustomers(_)
SumCustomers(rows) ==
    IF rows = <<>> THEN 0 ELSE Head(rows).customer_count + SumCustomers(Tail(rows))

(* Lines 96-101 and 143-147: customers / total * 100 for each row; it      *)
(* raises ZeroDivisionError when there is a row and the total is 0.        *)
PercentageRaises(rows) == rows # <<>> /\ SumCustomers(rows) = 0
Percentages(rows) ==
    [ i \in 1..Len(rows) |-> Frac(rows[i].customer_count * 100, SumCustomers(rows)) ]

-----------------------------------------------------------------------------
(* Connections and query execution (psycopg2).                             *)

(* required_tables, validate_metrics.py lines 39-42. *)
RequiredTables == << "orders", "order_items", "customer_purchases",
                     "product_pairs", "product_statistics", "customer_statistics" >>

MetricFunctions(s) ==
    IF s = "profiling" THEN << "customer_metrics", "geographic" >>
    ELSE << "collaborative", "high_value", "cross_region" >>

(* What the database does with a statement: it runs, it rejects it (SQL    *)
(* error: missing table or column), or the connection is lost under it.    *)
Outcomes == { "ok", "sql", "drop" }

(* cursor.execute on connection c.  The connections are opened without     *)
(* autocommit and the scripts never roll back: after a rejected statement  *)
(* the transaction is aborted and every later statement that reaches the   *)
(* server is rejected too, whatever it is; the connection can still be     *)
(* lost under such a statement.  On a lost connection everything raises.   *)
Execute(o, c, ab, br) ==
    IF c \in br THEN "closed"
    ELSE IF o = "drop" THEN "drop"
    ELSE IF c \in ab THEN "in_failed_tx"
    ELSE o

(* conn.close().  CloseLeak is the faulty close that releases nothing,    *)
(* which C4 must tell apart.                                               *)
CloseLeak(o, c) == o
Close(o, c) == o \ {c}

(* The connection object c is deallocated: the driver closes its socket,   *)
(* close() called or not.                                                  *)
Finalize(o, c) == o \ {c}

-----------------------------------------------------------------------------
(* Initial states: the process has started, nothing has run yet.           *)

db == <<script, orders, purchases, tableCount, hvValue, crossValue>>
connVars == <<nConn, calls, open, aborted, broken, conn>>
faultVars == <<sqlFault, dropFault, raised, queryConn>>
profilingVars == <<custRow, real_metrics, geoRows, percentages>>
metricsVars == <<table_status, collabRow, pairRows, metrics, high_value_pairs,
                 cross_region_products>>

(* The queries do not depend on the order of the rows of the table, so    *)
(* each table is listed once, its rows in non-decreasing order.            *)
RowBefore(a, b) ==
    \/ a.customer < b.customer
    \/ a.customer = b.customer /\ a.city < b.city
    \/ a.customer = b.customer /\ a.city = b.city /\ a.price <= b.price
OrderTables ==
    { O \in UNION { [1..n -> OrderRows] : n \in 0..MaxOrders } :
        \A i \in 1..(Len(O) - 1) : RowBefore(O[i], O[i + 1]) }
PurchaseRows == ({NULL} \cup Customers) \X Products
(* The number of joined rows varies from group to group. *)
RepeatCount(g) == 1 + ((g[1] + g[2]) % MaxPurchaseCount)
(* Every table of at most maxRows groups. *)
PurchaseTables(maxRows) ==
    { [g \in G |-> RepeatCount(g)] :
            G \in { D \in SUBSET PurchaseRows : Cardinality(D) <= maxRows } }
(* Every set of purchases of the known customers, alone or beside order    *)
(* items of every product whose order has no unified_customer_id.          *)
CollabTables ==
    { [g \in R \cup N |-> RepeatCount(g)] :
            R \in SUBSET (Customers \X Products),
            N \in { {}, {NULL} \X Products } }
TableNames == { RequiredTables[i] : i \in 1..Len(RequiredTables) }

Fresh ==
    /\ nConn = 0 /\ calls = 0 /\ open = {} /\ aborted = {} /\ broken = {}
    /\ conn = 0
    /\ sqlFault = {} /\ dropFault = {} /\ raised = {} /\ queryConn = {}
    /\ invoked = {} /\ returned = {}
    /\ custRow = <<>> /\ real_metrics = <<>> /\ geoRows = <<>>
    /\ percentages = <<>>
    /\ table_status = <<>> /\ collabRow = <<>> /\ pairRows = {}
    /\ metrics = <<>>
    /\ high_value_pairs = 0 /\ cross_region_products = 0
    /\ error = <<>> /\ handled = FALSE /\ exitStatus = -1

InitProfiling ==
    /\ script = "profiling" /\ pc = "start"
    /\ orders \in OrderTables
    /\ purchases = <<>>
    /\ tableCount = [t \in TableNames |-> 0]
    /\ hvValue = 0 /\ crossValue = 0
    /\ Fresh

InitMetrics ==
    /\ script = "metrics" /\ pc = "start"
    /\ orders = <<>>
    /\ purchases \in PurchaseTables(MaxRunRows)
    /\ tableCount \in { [t \in TableNames |-> n] : n \in 0..MaxCount }
    /\ hvValue \in 0..MaxCount /\ crossValue \in 0..MaxCount
    /\ Fresh

Init == InitProfiling \/ InitMetrics

-----------------------------------------------------------------------------
(* Steps shared by the actions.                                            *)

(* An exception leaves the running function and travels to main's handler. *)
Propagate(e, where) == /\ error' = <<e, where>> /\ pc' = "handler"

(* Bookkeeping of one cursor.execute(q) whose result is eff. *)
Executed(q, eff) ==
    /\ aborted' = IF eff = "sql" THEN aborted \cup {conn} ELSE aborted
    /\ broken' = IF eff = "drop" THEN broken \cup {conn} ELSE broken
    /\ sqlFault' = IF eff = "sql" THEN sqlFault \cup {q} ELSE sqlFault
    /\ dropFault' = IF eff = "drop" THEN dropFault \cup {q} ELSE dropFault
    /\ raised' = IF eff # "ok" THEN raised \cup {q} ELSE raised
    /\ queryConn' = queryConn \cup {<<q, conn>>}

(* psycopg2.connect succeeded: a new open connection. *)
Opened ==
    /\ nConn' = nConn + 1
    /\ open' = open \cup {nConn + 1}
    /\ conn' = nConn + 1
    /\ UNCHANGED <<aborted, broken>>

-----------------------------------------------------------------------------
(* validate_customer_profiling.py                                          *)

(* main -> compare_with_frontend -> validate_customer_profiling, lines     *)
(* 23-29: get_db_connection() has no handler of its own.                   *)
P_ConnectCustomer ==
    /\ script = "profiling" /\ pc = "start"
    /\ invoked' = invoked \cup {"customer_metrics"}
    /\ calls' = calls + 1
    /\ \E ok \in BOOLEAN :
        IF ok THEN /\ Opened /\ pc' = "cp_query" /\ UNCHANGED error
        ELSE /\ Propagate("OperationalError", "customer_metrics")
             /\ UNCHANGED <<nConn, open, aborted, broken, conn>>
    /\ UNCHANGED <<db, faultVars, returned, profilingVars, metricsVars,
                   handled, exitStatus>>

(* Lines 32-42: execute and fetchone, outside any try. *)
P_CustomerQuery ==
    /\ script = "profiling" /\ pc = "cp_query"
    /\ \E o \in Outcomes :
        LET eff == Execute(o, conn, aborted, broken) IN
        /\ Executed("customer_metrics", eff)
        /\ IF eff = "ok"
           THEN /\ custRow' = <<CustomerQuery(orders)>>
                /\ pc' = "cp_derive" /\ UNCHANGED error
           ELSE /\ Propagate("DatabaseError", "customer_metrics") /\ UNCHANGED custRow
    /\ UNCHANGED <<db, nConn, calls, open, conn, invoked, returned, real_metrics,
                   geoRows, percentages, metricsVars, handled, exitStatus>>

(* Lines 44-67: derived metrics, close, return. *)
P_CustomerDerive ==
    /\ script = "profiling" /\ pc = "cp_derive"
    /\ IF OrdersPerCustomerRaises(custRow[1])
       THEN /\ Propagate("ZeroDivisionError", "customer_metrics")
            /\ UNCHANGED <<open, conn, real_metrics, returned>>
       ELSE /\ open' = Close(open, conn)
            /\ conn' = 0
            /\ real_metrics' = <<CustomerMetrics(custRow[1])>>
            /\ returned' = returned \cup {"customer_metrics"}
            /\ pc' = "geo_connect" /\ UNCHANGED error
    /\ UNCHANGED <<db, nConn, calls, aborted, broken, faultVars, invoked, custRow,
                   geoRows, percentages, metricsVars, handled, exitStatus>>

(* validate_geographic_distribution, lines 69-75. *)
P_ConnectGeo ==
    /\ script = "profiling" /\ pc = "geo_connect"
    /\ invoked' = invoked \cup {"geographic"}
    /\ calls' = calls + 1
    /\ \E ok \in BOOLEAN :
        IF ok THEN /\ Opened /\ pc' = "geo_query" /\ UNCHANGED error
        ELSE /\ Propagate("OperationalError", "geographic")
             /\ UNCHANGED <<nConn, open, aborted, broken, conn>>
    /\ UNCHANGED <<db, faultVars, returned, profilingVars, metricsVars,
                   handled, exitStatus>>

(* Lines 78-93. *)
P_GeoQuery ==
    /\ script = "profiling" /\ pc = "geo_query"
    /\ \E o \in Outcomes :
        LET eff == Execute(o, conn, aborted, broken) IN
        /\ Executed("geographic", eff)
        /\ IF eff = "ok"
           THEN /\ geoRows' \in GeoQuery(orders)
                /\ pc' = "geo_derive" /\ UNCHANGED error
           ELSE /\ Propagate("DatabaseError", "geographic") /\ UNCHANGED geoRows
    /\ UNCHANGED <<db, nConn, calls, open, conn, invoked, returned, custRow,
                   real_metrics, percentages, metricsVars, handled, exitStatus>>

(* Lines 95-114: percentages, summary, close, return. *)
P_GeoDerive ==
    /\ script = "profiling" /\ pc = "geo_derive"
    /\ IF PercentageRaises(geoRows)
       THEN /\ Propagate("ZeroDivisionError", "geographic")
            /\ UNCHANGED <<open, conn, percentages, returned>>
       ELSE /\ percentages' = Percentages(geoRows)
            /\ open' = Close(open, conn)
            /\ conn' = 0
            /\ returned' = returned \cup {"geographic"}
            /\ pc' = "compare" /\ UNCHANGED error
    /\ UNCHANGED <<db, nConn, calls, aborted, broken, faultVars, invoked, custRow,
                   real_metrics, geoRows, metricsVars, handled, exitStatus>>

(* compare_with_frontend, lines 125-166: the percentages of the first five *)
(* rows again, the denominator still the sum over all returned rows.       *)
P_Compare ==
    /\ script = "profiling" /\ pc = "compare"
    /\ IF PercentageRaises(geoRows)
       THEN Propagate("ZeroDivisionError", "compare_with_frontend")
       ELSE /\ pc' = "report" /\ UNCHANGED error
    /\ UNCHANGED <<db, connVars, faultVars, invoked, returned, profilingVars,
                   metricsVars, handled, exitStatus>>

(* main, lines 177-192: the results are written to the JSON file inside   *)
(* main's try.  When open() or json.dump raises, the handler runs;         *)
(* otherwise the script ends: exit status 0.                               *)
P_Finish ==
    /\ script = "profiling" /\ pc = "report"
    /\ \E written \in BOOLEAN :
        IF written THEN /\ pc' = "done"
                        /\ exitStatus' = 0
                        /\ UNCHANGED error
        ELSE /\ Propagate("OSError", "main")
             /\ UNCHANGED exitStatus
    /\ UNCHANGED <<db, connVars, faultVars, invoked, returned, profilingVars,
                   metricsVars, handled>>

(* main, lines 194-197: the handler prints.  At the end of the except      *)
(* clause the exception is released, and with it the traceback and the     *)
(* frame of the function that failed, which held the script's reference to *)
(* its connection.  The code never closes that connection: whether the     *)
(* object is deallocated there, before main returns, is up to the runtime  *)
(* and the driver (it is not when the object sits in a reference cycle).   *)
(* The script ends without sys.exit, so the exit status is 0.              *)
P_Handler ==
    /\ script = "profiling" /\ pc = "handler"
    /\ handled' = TRUE
    /\ \E released \in BOOLEAN :
        IF released THEN /\ open' = Finalize(open, conn)
                         /\ conn' = 0
        ELSE UNCHANGED <<open, conn>>
    /\ pc' = "done"
    /\ exitStatus' = 0
    /\ UNCHANGED <<db, nConn, calls, aborted, broken, faultVars, invoked, returned,
                   profilingVars, metricsVars, error>>

-----------------------------------------------------------------------------
(* validate_metrics.py                                                     *)

(* main lines 277-280 with get_db_connection lines 16-30: a failed connect *)
(* is caught there, main returns False and the script exits 1.             *)
M_Connect ==
    /\ script = "metrics" /\ pc = "start"
    /\ calls' = calls + 1
    /\ \E ok \in BOOLEAN :
        IF ok THEN /\ Opened /\ pc' = "structure"
                   /\ UNCHANGED <<error, exitStatus>>
        ELSE /\ error' = <<"OperationalError", "get_db_connection">>
             /\ exitStatus' = 1
             /\ pc' = "done"
             /\ UNCHANGED <<nConn, open, aborted, broken, conn>>
    /\ UNCHANGED <<db, faultVars, invoked, returned, profilingVars, metricsVars,
                   handled>>

(* The loop of validate_database_structure, lines 45-54, from table i on:  *)
(* every probe runs on the same cursor, a failed one records -1.           *)
RECURSIVE ProbeLoop(_, _, _)
ProbeLoop(i, outs, st) ==
    IF i > Len(RequiredTables) THEN st
    ELSE LET t == RequiredTables[i]
             eff == Execute(outs[i], st.c, st.aborted, st.broken)
         IN  ProbeLoop(i + 1, outs,
                [ c |-> st.c,
                  status |-> (t :> (IF eff = "ok" THEN tableCount[t] ELSE -1))
                                @@ st.status,
                  aborted |-> IF eff = "sql" THEN st.aborted \cup {st.c}
                              ELSE st.aborted,
                  broken |-> IF eff = "drop" THEN st.broken \cup {st.c}
                             ELSE st.broken,
                  sqlFault |-> IF eff = "sql" THEN st.sqlFault \cup {t}
                               ELSE st.sqlFault,
                  dropFault |-> IF eff = "drop" THEN st.dropFault \cup {t}
                                ELSE st.dropFault,
                  raised |-> IF eff # "ok" THEN st.raised \cup {t} ELSE st.raised,
                  queryConn |-> st.queryConn \cup {<<t, st.c>>} ])

(* What the database does with the six probes.  After a lost connection   *)
(* no statement reaches the database, and in an aborted transaction the    *)
(* server answers a statement it would run and one it would reject alike,  *)
(* so every vector of outcomes has the result of one with at most one      *)
(* "sql", at most one "drop", and nothing but "ok" after the "drop".       *)
ProbeOutcomes ==
    { outs \in [1..Len(RequiredTables) -> Outcomes] :
        LET n == Len(RequiredTables) IN
        /\ Cardinality({ i \in 1..n : outs[i] = "sql" }) <= 1
        /\ Cardinality({ i \in 1..n : outs[i] = "drop" }) <= 1
        /\ \A i, j \in 1..n : (outs[i] = "drop" /\ i < j) => outs[j] = "ok" }

(* validate_database_structure, lines 32-57, and main lines 284-292. *)
M_Structure ==
    /\ script = "metrics" /\ pc = "structure"
    /\ \E outs \in ProbeOutcomes :
        LET r == ProbeLoop(1, outs,
                    [ c |-> conn, status |-> <<>>, aborted |-> aborted,
                      broken |-> broken, sqlFault |-> sqlFault,
                      dropFault |-> dropFault, raised |-> raised,
                      queryConn |-> queryConn ])
        IN  /\ table_status' = r.status
            /\ aborted' = r.aborted
            /\ broken' = r.broken
            /\ sqlFault' = r.sqlFault
            /\ dropFault' = r.dropFault
            /\ raised' = r.raised
            /\ queryConn' = r.queryConn
    /\ pc' = "collab"
    /\ UNCHANGED <<db, nConn, calls, open, conn, invoked, returned, profilingVars,
                   collabRow, pairRows, metrics, high_value_pairs,
                   cross_region_products, error, handled, exitStatus>>

(* validate_collaborative_metrics, lines 59-117 and 157-161: conn.cursor() *)
(* is outside the try and raises on a lost connection; a failed query is   *)
(* caught and the function returns None.                                   *)
M_CollabQuery ==
    /\ script = "metrics" /\ pc = "collab"
    /\ invoked' = invoked \cup {"collaborative"}
    /\ IF conn \in broken
       THEN /\ Propagate("InterfaceError", "collaborative")
            /\ UNCHANGED <<aborted, broken, faultVars, collabRow, pairRows, metrics,
                           returned>>
       ELSE \E o \in Outcomes :
            LET eff == Execute(o, conn, aborted, broken) IN
            /\ Executed("collaborative", eff)
            /\ UNCHANGED error
            /\ IF eff = "ok"
               THEN /\ LET cp == customer_products(purchases)
                             pairs == customer_pairs(cp)
                        IN  /\ pairRows' = pairs
                            /\ collabRow' = <<CollabRow(cp, pairs)>>
                    /\ pc' = "collab_derive"
                    /\ UNCHANGED <<metrics, returned>>
               ELSE /\ metrics' = <<>>
                    /\ returned' = returned \cup {"collaborative"}
                    /\ pc' = "high_value"
                    /\ UNCHANGED <<collabRow, pairRows>>
    /\ UNCHANGED <<db, nConn, calls, open, conn, profilingVars, table_status,
                   high_value_pairs, cross_region_products, handled, exitStatus>>

(* Lines 118-152: the derived metrics and the returned dictionary. *)
M_CollabDerive ==
    /\ script = "metrics" /\ pc = "collab_derive"
    /\ metrics' = <<CollabMetrics(collabRow[1])>>
    /\ returned' = returned \cup {"collaborative"}
    /\ pc' = "high_value"
    /\ UNCHANGED <<db, connVars, faultVars, invoked, profilingVars, table_status,
                   collabRow, pairRows, high_value_pairs, cross_region_products,
                   error, handled, exitStatus>>

(* validate_high_value_pairs, lines 163-212: 0 when the query fails. *)
M_HighValue ==
    /\ script = "metrics" /\ pc = "high_value"
    /\ invoked' = invoked \cup {"high_value"}
    /\ IF conn \in broken
       THEN /\ Propagate("InterfaceError", "high_value")
            /\ UNCHANGED <<aborted, broken, faultVars, high_value_pairs, returned>>
       ELSE \E o \in Outcomes :
            LET eff == Execute(o, conn, aborted, broken) IN
            /\ Executed("high_value", eff)
            /\ high_value_pairs' = IF eff = "ok" THEN hvValue ELSE 0
            /\ returned' = returned \cup {"high_value"}
            /\ pc' = "cross_region"
            /\ UNCHANGED error
    /\ UNCHANGED <<db, nConn, calls, open, conn, profilingVars, table_status,
                   collabRow, pairRows, metrics, cross_region_products, handled,
                   exitStatus>>

(* validate_cross_region_products, lines 214-268: 0 when the query fails. *)
M_CrossRegion ==
    /\ script = "metrics" /\ pc = "cross_region"
    /\ invoked' = invoked \cup {"cross_region"}
    /\ IF conn \in broken
       THEN /\ Propagate("InterfaceError", "cross_region")
            /\ UNCHANGED <<aborted, broken, faultVars, cross_region_products,
                           returned>>
       ELSE \E o \in Outcomes :
            LET eff == Execute(o, conn, aborted, broken) IN
            /\ Executed("cross_region", eff)
            /\ cross_region_products' = IF eff = "ok" THEN crossValue ELSE 0
            /\ returned' = returned \cup {"cross_region"}
            /\ pc' = "summary"
            /\ UNCHANGED error
    /\ UNCHANGED <<db, nConn, calls, open, conn, profilingVars, table_status,
                   collabRow, pairRows, metrics, high_value_pairs, handled,
                   exitStatus>>

(* main lines 301-331 and 336-341: the report, return True, the finally    *)
(* clause closes the connection, sys.exit(0).                              *)
M_Summary ==
    /\ script = "metrics" /\ pc = "summary"
    /\ open' = Close(open, conn)
    /\ conn' = 0
    /\ exitStatus' = 0
    /\ pc' = "done"
    /\ UNCHANGED <<db, nConn, calls, aborted, broken, faultVars, invoked, returned,
                   profilingVars, metricsVars, error, handled>>

(* main lines 333-341: the handler returns False, the finally clause       *)
(* closes the connection, sys.exit(1).                                     *)
M_Handler ==
    /\ script = "metrics" /\ pc = "handler"
    /\ handled' = TRUE
    /\ open' = Close(open, conn)
    /\ conn' = 0
    /\ exitStatus' = 1
    /\ pc' = "done"
    /\ UNCHANGED <<db, nConn, calls, aborted, broken, faultVars, invoked, returned,
                   profilingVars, metricsVars, error>>

-----------------------------------------------------------------------------
Next ==
    \/ P_ConnectCustomer \/ P_CustomerQuery \/ P_CustomerDerive
    \/ P_ConnectGeo \/ P_GeoQuery \/ P_GeoDerive
    \/ P_Compare \/ P_Finish \/ P_Handler
    \/ M_Connect \/ M_Structure \/ M_CollabQuery \/ M_CollabDerive
    \/ M_HighValue \/ M_CrossRegion \/ M_Summary \/ M_Handler

Spec == Init /\ [][Next]_vars

-----------------------------------------------------------------------------
(* The collaborative step alone, on larger order data: the run has         *)
(* connected and validate_database_structure has found every table.        *)

AfterStructure ==
    /\ script = "metrics" /\ pc = "collab"
    /\ orders = <<>>
    /\ tableCount = [t \in TableNames |-> MaxCount]
    /\ hvValue = 0 /\ crossValue = 0
    /\ nConn = 1 /\ calls = 1 /\ open = {1} /\ aborted = {} /\ broken = {}
    /\ conn = 1
    /\ sqlFault = {} /\ dropFault = {} /\ raised = {}
    /\ queryConn = { <<t, 1>> : t \in TableNames }
    /\ invoked = {} /\ returned = {}
    /\ custRow = <<>> /\ real_metrics = <<>> /\ geoRows = <<>>
    /\ percentages = <<>>
    /\ table_status = tableCount
    /\ collabRow = <<>> /\ pairRows = {} /\ metrics = <<>>
    /\ high_value_pairs = 0 /\ cross_region_products = 0
    /\ error = <<>> /\ handled = FALSE /\ exitStatus = -1

InitCollab == AfterStructure /\ purchases \in CollabTables

NextCollab == M_CollabQuery \/ M_CollabDerive

SpecCollab == InitCollab /\ [][NextCollab]_vars

(* The derived metrics alone, on any row of non-negative aggregates the    *)
(* query could hand to lines 118-152.                                      *)
CollabResults ==
    [ total_users : 0..MaxUsers,
      total_products : {0},
      total_purchases : {0},
      total_combinations : {0},
      active_pairs : 0..MaxPairs,
      avg_shared : (0..MaxAvgNum) \X (1..MaxAvgDen) ]

InitDerived ==
    /\ script = "metrics" /\ pc = "collab_derive"
    /\ orders = <<>> /\ purchases = <<>>
    /\ tableCount = [t \in TableNames |-> MaxCount]
    /\ hvValue = 0 /\ crossValue = 0
    /\ nConn = 1 /\ calls = 1 /\ open = {1} /\ aborted = {} /\ broken = {}
    /\ conn = 1
    /\ sqlFault = {} /\ dropFault = {} /\ raised = {}
    /\ queryConn = { <<t, 1>> : t \in TableNames } \cup { <<"collaborative", 1>> }
    /\ invoked = {"collaborative"} /\ returned = {}
    /\ custRow = <<>> /\ real_metrics = <<>> /\ geoRows = <<>>
    /\ percentages = <<>>
    /\ table_status = tableCount
    /\ \E r \in CollabResults : collabRow = <<r>>
    /\ pairRows = {}
    /\ metrics = <<>>
    /\ high_value_pairs = 0 /\ cross_region_products = 0
    /\ error = <<>> /\ handled = FALSE /\ exitStatus = -1

NextDerived == M_CollabDerive

SpecDerived == InitDerived /\ [][NextDerived]_vars

-----------------------------------------------------------------------------
(* Properties.                                                             *)

IsProb(x) == x[2] > 0 /\ x[1] >= 0 /\ FracLeq(x, One)

FracAdd(a, b) == Frac(a[1] * b[2] + b[1] * a[2], a[2] * b[2])

RECURSIVE SumFracs(_)
SumFracs(s) == IF s = <<>> THEN Zero ELSE FracAdd(Head(s), SumFracs(Tail(s)))

(* C1: once the customer metrics query has returned its row, the derived   *)
(* metrics raise no ZeroDivisionError, validate_customer_profiling returns *)
(* normally, and avg_lifetime_value is 0 for 0 customers and               *)
(* total_revenue / total_customers otherwise.                              *)
C1_NoDivisionByZero ==
    (script = "profiling" /\ custRow # <<>> /\ pc # "cp_derive") =>
        /\ error # <<"ZeroDivisionError", "customer_metrics">>
        /\ "customer_metrics" \in returned
        /\ real_metrics # <<>>
        /\ LET row == custRow[1] IN
           FracEq(real_metrics[1].avg_lifetime_value,
                  IF row.total_customers = 0 THEN Zero
                  ELSE Frac(row.total_revenue, row.total_customers))

(* The value a metric function holds as its result, against its default. *)
HoldsDefault(f) ==
    CASE f = "customer_metrics" -> real_metrics = <<>>
      [] f = "geographic" -> geoRows = <<>>
      [] f = "collaborative" -> metrics = <<>>
      [] f = "high_value" -> high_value_pairs = 0
      [] f = "cross_region" -> cross_region_products = 0

(* C2: in a finished run of either script, a metric function whose query   *)
(* raised has returned its safe default, and every metric function after   *)
(* it has still been invoked.                                              *)
C2_QueryFailureContained ==
    pc = "done" =>
        \A i \in 1..Len(MetricFunctions(script)) :
            LET f == MetricFunctions(script)[i] IN
            f \in raised =>
                /\ f \in returned
                /\ HoldsDefault(f)
                /\ \A j \in (i + 1)..Len(MetricFunctions(script)) :
                        MetricFunctions(script)[j] \in invoked

(* C3: a finished run has exit status 0 exactly when the connection was    *)
(* made and no failure reached main's top-level handler.                   *)
C3_ExitStatusTellsSuccess ==
    pc = "done" => (exitStatus = 0 <=> (error = <<>> /\ ~handled))

(* C4: get_db_connection is called once per run, no second connection is   *)
(* ever opened, and every query runs on the one connection.                *)
C4_SingleConnection ==
    /\ calls <= 1
    /\ nConn <= 1
    /\ pc = "done" => calls = 1
    /\ \A qc \in queryConn : qc[2] = 1

(* C4 as amended: validate_metrics calls get_db_connection exactly once    *)
(* and runs every query on that connection; validate_customer_profiling    *)
(* calls it once in each of its two metric functions, each query running   *)
(* on the connection its own function opened; in both scripts at most one  *)
(* connection is open at any time.                                         *)
C4_OneOpenConnectionAtATime ==
    /\ Cardinality(open) <= 1
    /\ open \subseteq {conn}
    /\ script = "metrics" =>
        /\ calls <= 1 /\ nConn <= 1
        /\ pc # "start" => calls = 1
        /\ \A qc \in queryConn : qc[2] = 1
    /\ script = "profiling" =>
        /\ calls <= 2 /\ nConn <= calls
        /\ pc # "start" => calls >= 1
        /\ \A qc \in queryConn :
            /\ qc[1] = "customer_metrics" => qc[2] = 1
            /\ qc[1] = "geographic" => qc[2] = 2 /\ calls = 2

C4_TwoConnectionsInTurn ==
    /\ script = "profiling" /\ pc = "done"
    /\ queryConn = { <<"customer_metrics", 1>>, <<"geographic", 2>> }
    /\ nConn = 2 /\ open = {}

C6_FailureIsolated ==
    (script = "metrics" /\ dropFault = {}) =>
        /\ \A t \in DOMAIN table_status :
                t \notin sqlFault => table_status[t] = tableCount[t]
        /\ ("collaborative" \in returned /\ "collaborative" \notin sqlFault) =>
                metrics = <<CollabMetrics(CollabQuery(purchases))>>
        /\ ("high_value" \in returned /\ "high_value" \notin sqlFault) =>
                high_value_pairs = hvValue
        /\ ("cross_region" \in returned /\ "cross_region" \notin sqlFault) =>
                cross_region_products = crossValue

(* C7: for every row of non-negative aggregates, the similarity score and  *)
(* the recommendation coverage that validate_collaborative_metrics returns *)
(* lie in [0, 1].                                                          *)
C7_ScoresInUnitInterval ==
    metrics # <<>> =>
        /\ IsProb(metrics[1].avg_similarity_score)
        /\ IsProb(metrics[1].algorithm_accuracy)
        /\ IsProb(metrics[1].coverage)

C7_BothClampsActive ==
    /\ metrics # <<>>
    /\ collabRow[1].avg_shared[1] > SimilarityDivisor * collabRow[1].avg_shared[2]
    /\ collabRow[1].total_users > 1
    /\ collabRow[1].active_pairs > MaxPossiblePairs(collabRow[1].total_users)
    /\ FracEq(metrics[1].avg_similarity_score, One)
    /\ FracEq(metrics[1].coverage, One)

(* C8: customer_pairs holds no pair (a, a) and never both (a, b) and       *)
(* (b, a): every row has customer1 < customer2 and no two rows are about   *)
(* the same two customers.                                                 *)
C8_PairsOrderedOnce ==
    collabRow # <<>> =>
        LET R == pairRows IN
        /\ \A r \in R : r.customer1 < r.customer2
        /\ \A r, q \in R :
            /\ ~(r.customer1 = q.customer2 /\ r.customer2 = q.customer1)
            /\ {r.customer1, r.customer2} = {q.customer1, q.customer2} => r = q

C8_SeveralPairs ==
    /\ collabRow # <<>>
    /\ collabRow[1].active_pairs >= 2
    /\ Cardinality(pairRows) >= 2

(* Products both customers of S bought, and the unordered pairs of         *)
(* distinct customers that share at least two of them.                     *)
SharedBy(S) == { p \in Products : \A c \in S : <<c, p>> \in DOMAIN purchases }
SharingPairs ==
    { S \in SUBSET Customers : Cardinality(S) = 2 /\ Cardinality(SharedBy(S)) >= 2 }

RECURSIVE SumSharedBy(_)
SumSharedBy(SS) ==
    IF SS = {} THEN 0
    ELSE LET S == CHOOSE x \in SS : TRUE
         IN  Cardinality(SharedBy(S)) + SumSharedBy(SS \ {S})

(* C9: active_customer_pairs is the number of unordered pairs of distinct  *)
(* customers sharing at least 2 distinct products, avg_shared_products is  *)
(* the mean number of shared products over those pairs (0 when there is    *)
(* none), and one pair sharing exactly 2 products gives 1, 2 and a         *)
(* similarity score of 2/10.                                               *)
C9_ActivePairsAndMean ==
    collabRow # <<>> =>
        LET row == collabRow[1]
            SP == SharingPairs
        IN
        /\ row.active_pairs = Cardinality(SP)
        /\ IF SP = {} THEN FracEq(row.avg_shared, Zero)
           ELSE FracEq(row.avg_shared, Frac(SumSharedBy(SP), Cardinality(SP)))
        /\ (\E S \in SP : SP = {S} /\ Cardinality(SharedBy(S)) = 2) =>
            /\ row.active_pairs = 1
            /\ FracEq(row.avg_shared, Frac(2, 1))
            /\ metrics # <<>> =>
                    FracEq(metrics[1].avg_similarity_score, Frac(2, 10))

C9_TwoCustomersTwoProducts ==
    /\ metrics # <<>>
    /\ \E S \in SharingPairs : SharingPairs = {S} /\ Cardinality(SharedBy(S)) = 2
    /\ collabRow[1].active_pairs = 1
    /\ metrics[1].active_customer_pairs = 1
    /\ FracEq(metrics[1].avg_similarity_score, Frac(2, 10))

(* C10: once the geographic query has returned at least one city row, the  *)
(* percentage of every row is computed without error as                    *)
(* customer_count / (sum of customer_count) * 100, and the percentages     *)
(* sum to 100.                                                             *)
C10_PercentagesSumTo100 ==
    (script = "profiling" /\ geoRows # <<>> /\ pc # "geo_derive") =>
        /\ error # <<"ZeroDivisionError", "geographic">>
        /\ "geographic" \in returned
        /\ Len(percentages) = Len(geoRows)
        /\ \A i \in 1..Len(percentages) :
                FracEq(percentages[i],
                       Frac(geoRows[i].customer_count * 100, SumCustomers(geoRows)))
        /\ FracEq(SumFracs(percentages), Frac(100, 1))

(* C11: the aggregates of the collaborative query satisfy                  *)
(* active_customer_pairs <= total_users * (total_users - 1) / 2 when       *)
(* total_users > 1 and active_customer_pairs = 0 when total_users <= 1, so *)
(* min(.., 1.0) leaves recommendation_coverage unchanged and the sentinel  *)
(* max_possible_pairs = 1 is only divided into 0.                          *)
C11_PairsWithinPossible ==
    collabRow # <<>> =>
        LET row == collabRow[1] IN
        /\ row.total_users > 1 =>
                2 * row.active_pairs <= row.total_users * (row.total_users - 1)
        /\ row.total_users <= 1 => row.active_pairs = 0
        /\ metrics # <<>> =>
            /\ metrics[1].coverage =
                    Frac(row.active_pairs, MaxPossiblePairs(row.total_users))
            /\ row.total_users <= 1 => metrics[1].coverage = Frac(0, 1)

C11_EveryPairActive ==
    /\ metrics # <<>>
    /\ \E g \in DOMAIN purchases : g[1] = NULL
    /\ collabRow[1].total_users = MaxCustomer
    /\ collabRow[1].active_pairs = MaxPossiblePairs(MaxCustomer)
    /\ metrics[1].coverage = Frac(collabRow[1].active_pairs, collabRow[1].active_pairs)

====
